---- MODULE Spec2Model ----
(***************************************************************************)
(* Model of src/pmf/main.py: class PMF (biased matrix factorisation        *)
(* trained by per-feature stochastic gradient descent).                    *)
(*                                                                         *)
(* Real numbers are carried in fixed point: an integer x stands for the    *)
(* real x / Scale.  A product of two fixed-point numbers is rounded        *)
(* towards minus infinity (Mul); the code rounds to the nearest float64.   *)
(* Matrices are functions over 0-based indices, as in the code.            *)
(***************************************************************************)
EXTENDS Integers, Sequences, FiniteSets, TLC

VARIABLES
    \* arguments of PMF.__init__
    file_path, f, gamma, lambda_, min_iter, max_iter, min_improvement,
    p_arg, q_arg,
    \* fields of the PMF object
    R, K, n, m, p, q, mu, b_u, b_i, sse, rmse,
    \* locals of PMF.train
    cost, cost_last, feature, n_iter, k,
    \* control position, exception raised, and observation of the run
    pc, raised, trains, steplog, ncost, p0, q0

vars == << file_path, f, gamma, lambda_, min_iter, max_iter, min_improvement,
           p_arg, q_arg, R, K, n, m, p, q, mu, b_u, b_i, sse, rmse,
           cost, cost_last, feature, n_iter, k,
           pc, raised, trains, steplog, ncost, p0, q0 >>

----------------------------------------------------------------------------
(* Bounds of the model *)

\* fixed-point unit: x stands for x / Scale
Scale == 1000
\* f ranges over 1..MaxF
MaxF == 2
\* max_iter ranges over 0..MaxMaxIter
MaxMaxIter == 3
\* min_iter ranges over 0..MaxMinIter
MaxMinIter == 2
\* number of calls of train() on one object
MaxTrains == 2

----------------------------------------------------------------------------
(* Arithmetic *)

\* floor(a * b / Scale), computed without forming a * b
Mul(a, b) == (a \div Scale) * b + ((a % Scale) * b) \div Scale

RECURSIVE SumSeq(_)
SumSeq(s) == IF Len(s) = 0 THEN 0 ELSE Head(s) + SumSeq(Tail(s))

RECURSIVE ISqrtBS(_, _, _)
\* largest r in lo..hi with r * r <= y  (lo * lo <= y is assumed)
ISqrtBS(y, lo, hi) ==
    IF lo >= hi THEN lo
    ELSE LET mid == (lo + hi + 1) \div 2
         IN  IF mid * mid <= y THEN ISqrtBS(y, mid, hi)
                               ELSE ISqrtBS(y, lo, mid - 1)

\* np.sqrt on a non-negative fixed-point number
Sqrt(x) == LET y == x * Scale
           IN  ISqrtBS(y, 0, IF y < 46340 THEN y ELSE 46340)

SetMax(S) == CHOOSE x \in S : \A y \in S : y <= x

None == << >>

----------------------------------------------------------------------------
(* Input files: sequences of lines <<user_id, item_id, rating>>, 1-based *)

SpecFile   == << <<1, 1, 5>>, <<1, 2, 3>>, <<2, 1, 4>> >>
GapFile    == << <<1, 1, 1>>, <<3, 1, 5>> >>
DupFile    == << <<1, 1, 2>>, <<1, 1, 3>>, <<2, 2, 1>> >>
ZeroFile   == << <<1, 1, 0>> >>
EmptyFile  == << >>
CancelFile == << <<1, 1, 2>>, <<2, 1, -2>> >>

Files == {SpecFile, GapFile, DupFile, ZeroFile, EmptyFile, CancelFile}

RECURSIVE CellSum(_, _, _)
\* csc_matrix((values, ij.T)) adds up the values given for one cell
CellSum(file, u, i) ==
    IF Len(file) = 0 THEN 0
    ELSE LET ln == Head(file)
         IN  (IF ln[1] - 1 = u /\ ln[2] - 1 = i THEN ln[3] ELSE 0)
             + CellSum(Tail(file), u, i)

\* PMF._load_data followed by todense(): the dense matrix and its shape
load_data(file) ==
    IF Len(file) = 0
    THEN [ok |-> FALSE, exc |-> "IndexError", rows |-> 0, cols |-> 0, val |-> << >>]
    ELSE LET rows == SetMax({file[j][1] : j \in 1..Len(file)})
             cols == SetMax({file[j][2] : j \in 1..Len(file)})
         IN  [ok |-> TRUE, exc |-> "", rows |-> rows, cols |-> cols,
              val |-> [u \in 0..rows-1 |->
                        [i \in 0..cols-1 |-> CellSum(file, u, i) * Scale]]]

RECURSIVE NonzeroFrom(_, _, _, _)
\* R_sparse.nonzero(): coordinates of the nonzero cells, column by column
NonzeroFrom(val, rows, cols, c) ==
    IF c >= rows * cols THEN << >>
    ELSE LET u == c % rows
             i == c \div rows
             rest == NonzeroFrom(val, rows, cols, c + 1)
         IN  IF val[u][i] # 0 THEN << <<u, i>> >> \o rest ELSE rest

nonzero(ld) == NonzeroFrom(ld.val, ld.rows, ld.cols, 0)

----------------------------------------------------------------------------
(* Baseline *)

RowSlice(val, cols, u) == [j \in 1..cols |-> val[u][j-1]]
ColSlice(val, rows, i) == [j \in 1..rows |-> val[j-1][i]]
AllCells(val, rows, cols) ==
    [j \in 1..(rows * cols) |-> val[(j-1) % rows][(j-1) \div rows]]

\* np.nansum(x) / np.count_nonzero(~np.isnan(x)): no cell of the dense
\* matrix is NaN, so every cell of the slice is counted
SliceMean(x) == SumSeq(x) \div Len(x)

\* PMF._get_mu: `mean or self._get_mu(self.R)`; the fallback calls itself
\* again for as long as the mean of the whole matrix is 0
get_mu(x, all) ==
    IF Len(x) = 0 THEN [ok |-> FALSE, exc |-> "FloatingPointError", val |-> 0]
    ELSE IF SliceMean(x) # 0 THEN [ok |-> TRUE, exc |-> "", val |-> SliceMean(x)]
    ELSE IF Len(all) = 0 THEN [ok |-> FALSE, exc |-> "FloatingPointError", val |-> 0]
    ELSE IF SliceMean(all) # 0 THEN [ok |-> TRUE, exc |-> "", val |-> SliceMean(all)]
    ELSE [ok |-> FALSE, exc |-> "RuntimeError", val |-> 0]

\* PMF.get_baseline
get_baseline(ld, nn, mm) ==
    LET all == AllCells(ld.val, ld.rows, ld.cols)
        gm  == get_mu(all, all)
    IN  IF ~gm.ok THEN [ok |-> FALSE, exc |-> gm.exc, mu |-> 0, b_u |-> << >>, b_i |-> << >>]
        ELSE [ok |-> TRUE, exc |-> "", mu |-> gm.val,
              b_u |-> [u \in 0..nn-1 |->
                         gm.val - get_mu(RowSlice(ld.val, ld.cols, u), all).val],
              b_i |-> [i \in 0..mm-1 |->
                         gm.val - get_mu(ColSlice(ld.val, ld.rows, i), all).val]]

----------------------------------------------------------------------------
(* Factor matrices *)

\* np.random.uniform(-0.01, 0.01, ...): two of the matrices it can draw
RandLo == 0 - (Scale \div 100)
RandHi == Scale \div 100
RandomMatrices(rows, cols) ==
    { [g \in 0..rows-1 |-> [c \in 0..cols-1 |-> RandHi]],
      [g \in 0..rows-1 |-> [c \in 0..cols-1 |->
            IF (g + c) % 2 = 0 THEN RandLo ELSE RandHi]] }

\* a matrix a caller supplies as p= or q=: every entry 0.5
WarmMatrix(rows, cols) == [g \in 0..rows-1 |-> [c \in 0..cols-1 |-> Scale \div 2]]

FileUsers(file) == IF Len(file) = 0 THEN 0 ELSE SetMax({file[j][1] : j \in 1..Len(file)})
FileItems(file) == IF Len(file) = 0 THEN 0 ELSE SetMax({file[j][2] : j \in 1..Len(file)})

----------------------------------------------------------------------------
(* Predictor *)

RECURSIVE DotFrom(_, _, _, _, _)
DotFrom(qq, pp, i, u, g) ==
    IF g >= f THEN 0
    ELSE Mul(qq[g][i], pp[g][u]) + DotFrom(qq, pp, i, u, g + 1)

\* np.dot(self.q.T[i,:], self.p[:,u])
dot(qq, pp, i, u) == DotFrom(qq, pp, i, u, 0)

\* line 74-75: the sum before the clamp
raw_rhat(u, i) == mu + b_i[i] + b_u[u] + dot(q, p, i, u)

\* a predictor that forgets the lower clamp
predict_rhat_no_floor(u, i) ==
    LET r_hat == raw_rhat(u, i)
    IN  IF r_hat > 5 * Scale THEN 5 * Scale ELSE r_hat

\* PMF.predict_rhat
predict_rhat(u, i) ==
    LET r_hat == raw_rhat(u, i)
    IN  IF r_hat > 5 * Scale THEN 5 * Scale
        ELSE IF r_hat < 1 * Scale THEN 1 * Scale
        ELSE r_hat

\* PMF.get_rating
get_rating(u, i) == R[u][i]

\* PMF.get_error
get_error(u, i) == get_rating(u, i) - predict_rhat(u, i)

----------------------------------------------------------------------------
(* Trainer *)

\* an update that writes the item factor of every feature
update_all_rows(u, i, ft, err) ==
    LET bu1 == [b_u EXCEPT ![u] = @ + Mul(gamma, err - Mul(lambda_, @))]
        bi1 == [b_i EXCEPT ![i] = @ + Mul(gamma, err - Mul(lambda_, @))]
        q1  == [g \in 0..f-1 |->
                 [q[g] EXCEPT ![i] = @ + Mul(gamma, Mul(err, p[g][u]) - Mul(lambda_, @))]]
        p1  == [p EXCEPT ![ft][u] = @ + Mul(gamma, Mul(err, q1[ft][i]) - Mul(lambda_, @))]
    IN  [b_u |-> bu1, b_i |-> bi1, q |-> q1, p |-> p1]

\* PMF.update: the four assignments, in the order of the code
update(u, i, ft, err) ==
    LET bu1 == [b_u EXCEPT ![u] = @ + Mul(gamma, err - Mul(lambda_, @))]
        bi1 == [b_i EXCEPT ![i] = @ + Mul(gamma, err - Mul(lambda_, @))]
        q1  == [q EXCEPT ![ft][i] = @ + Mul(gamma, Mul(err, p[ft][u]) - Mul(lambda_, @))]
        p1  == [p EXCEPT ![ft][u] = @ + Mul(gamma, Mul(err, q1[ft][i]) - Mul(lambda_, @))]
    IN  [b_u |-> bu1, b_i |-> bi1, q |-> q1, p |-> p1]

RECURSIVE Norm2From(_, _, _)
\* np.linalg.norm(column c of mat) ** 2
Norm2From(mat, c, g) ==
    IF g >= f THEN 0 ELSE Mul(mat[g][c], mat[g][c]) + Norm2From(mat, c, g + 1)

\* PMF.compute_cost
compute_cost(u, i) ==
    LET r == get_rating(u, i)
        r_hat_desc == mu - b_i[i] - b_u[u] - dot(q, p, i, u)
    IN  Mul(r - r_hat_desc, r - r_hat_desc)
        + Mul(lambda_, Mul(b_i[i], b_i[i]) + Mul(b_u[u], b_u[u])
                       + Norm2From(q, i, 0) + Norm2From(p, u, 0))

\* line 124: feature in xrange(self.f)
feature_in_xrange(x, stop) == x < stop

\* an epoch loop that runs one epoch more than max_iter
epoch_in_xrange_inclusive(x, stop) == x <= stop

\* an epoch loop that tests its bound only after the first epoch
epoch_in_xrange_dowhile(x, stop) == x < stop \/ x = 0

\* line 127: n in xrange(self.max_iter)
epoch_in_xrange(x, stop) == x < stop

\* a convergence test that forgets min_improvement
converged_no_margin(nn, c, c_last) == nn >= min_iter /\ c > c_last

\* line 137: the test that breaks out of the epoch loop
converged(nn, c, c_last) == nn >= min_iter /\ c > c_last - min_improvement

----------------------------------------------------------------------------
(* State machine *)

Init ==
    /\ file_path \in Files
    /\ f \in 1..MaxF
    /\ gamma \in {Scale \div 200, Scale \div 2}
    /\ lambda_ \in {Scale \div 50}
    /\ min_iter \in 0..MaxMinIter
    /\ max_iter \in 0..MaxMaxIter
    /\ min_improvement \in {Scale \div 1000}
    /\ p_arg \in {None, WarmMatrix(f, FileUsers(file_path))}
    /\ q_arg \in {None, WarmMatrix(f, FileItems(file_path))}
    /\ R = << >> /\ K = << >> /\ n = 0 /\ m = 0
    /\ p = << >> /\ q = << >> /\ mu = 0 /\ b_u = << >> /\ b_i = << >>
    /\ sse = 0 /\ rmse = 0
    /\ cost = 0 /\ cost_last = 0 /\ feature = 0 /\ n_iter = 0 /\ k = 0
    /\ pc = "new" /\ raised = "" /\ trains = 0
    /\ steplog = << >> /\ ncost = 0 /\ p0 = << >> /\ q0 = << >>

args == << file_path, f, gamma, lambda_, min_iter, max_iter, min_improvement,
           p_arg, q_arg >>
trainLocals == << cost, cost_last, feature, n_iter, k >>

Raise(exc) ==
    /\ pc' = "raised"
    /\ raised' = exc
    /\ UNCHANGED << R, K, n, m, p, q, mu, b_u, b_i, p0, q0 >>

\* PMF.__init__ (lines 35-66)
Construct ==
    /\ pc = "new"
    /\ LET ld == load_data(file_path)
       IN  IF ~ld.ok THEN Raise(ld.exc)
           ELSE LET Kseq == nonzero(ld)
                IN  IF Len(Kseq) = 0 THEN Raise("ValueError")
                    ELSE LET nn == SetMax({Kseq[j][1] : j \in 1..Len(Kseq)}) + 1
                             mm == SetMax({Kseq[j][2] : j \in 1..Len(Kseq)}) + 1
                             base == get_baseline(ld, nn, mm)
                         IN  IF ~base.ok THEN Raise(base.exc)
                             ELSE \E pr \in RandomMatrices(f, nn),
                                     qr \in RandomMatrices(f, mm) :
                                    /\ R' = ld.val
                                    /\ K' = Kseq
                                    /\ n' = nn
                                    /\ m' = mm
                                    \* hasattr(self, 'p') is False on a new object
                                    /\ p' = pr
                                    /\ q' = qr
                                    /\ p0' = pr
                                    /\ q0' = qr
                                    /\ mu' = base.mu
                                    /\ b_u' = base.b_u
                                    /\ b_i' = base.b_i
                                    /\ pc' = "idle"
                                    /\ raised' = ""
    /\ UNCHANGED << args, trainLocals, sse, rmse, trains, steplog, ncost >>

\* PMF.train, lines 120-122
TrainStart ==
    /\ pc \in {"idle", "done"}
    /\ trains < MaxTrains
    /\ trains' = trains + 1
    /\ cost' = 2 * Scale
    /\ sse' = 0
    /\ feature' = 0
    /\ steplog' = << >>
    /\ ncost' = 0
    /\ p0' = p
    /\ q0' = q
    /\ pc' = "for_feature"
    /\ UNCHANGED << args, R, K, n, m, p, q, mu, b_u, b_i, rmse,
                    cost_last, n_iter, k, raised >>

\* a feature loop that restarts the accumulator for every feature
ForFeature_ResetSse ==
    /\ pc = "for_feature"
    /\ feature_in_xrange(feature, f)
    /\ n_iter' = 0
    /\ sse' = 0
    /\ pc' = "for_n"
    /\ UNCHANGED << args, R, K, n, m, p, q, mu, b_u, b_i, rmse,
                    cost, cost_last, feature, k, raised, trains, steplog,
                    ncost, p0, q0 >>

\* line 124: for feature in xrange(self.f)
ForFeature ==
    /\ pc = "for_feature"
    /\ feature_in_xrange(feature, f)
    /\ n_iter' = 0
    /\ pc' = "for_n"
    /\ UNCHANGED << args, R, K, n, m, p, q, mu, b_u, b_i, sse, rmse,
                    cost, cost_last, feature, k, raised, trains, steplog,
                    ncost, p0, q0 >>

\* lines 127-128: for n in xrange(self.max_iter): cost_last = cost
ForEpoch ==
    /\ pc = "for_n"
    /\ IF epoch_in_xrange(n_iter, max_iter)
       THEN /\ cost_last' = cost
            /\ k' = 1
            /\ pc' = "pairs"
            /\ UNCHANGED feature
       ELSE /\ feature' = feature + 1
            /\ pc' = "for_feature"
            /\ UNCHANGED << cost_last, k >>
    /\ UNCHANGED << args, R, K, n, m, p, q, mu, b_u, b_i, sse, rmse,
                    cost, n_iter, raised, trains, steplog, ncost, p0, q0 >>

\* lines 130-133: one pass of the loop over zip(K_users, K_items)
GradStep ==
    /\ pc = "pairs"
    /\ LET u == K[k][1]
           i == K[k][2]
           err == get_error(u, i)
           nw == update(u, i, feature, err)
       IN  /\ b_u' = nw.b_u
           /\ b_i' = nw.b_i
           /\ q' = nw.q
           /\ p' = nw.p
           /\ sse' = sse + Mul(err, err)
           /\ steplog' = Append(steplog,
                  [feature |-> feature, n |-> n_iter, u |-> u, i |-> i, err |-> err])
    /\ IF k < Len(K)
       THEN k' = k + 1 /\ pc' = "pairs"
       ELSE k' = k /\ pc' = "epoch_end"
    /\ UNCHANGED << args, R, K, n, m, mu, rmse, cost, cost_last, feature,
                    n_iter, raised, trains, ncost, p0, q0 >>

\* lines 135-138: cost snapshot on the last pair, then the convergence test
EpochEnd ==
    /\ pc = "epoch_end"
    /\ LET u == K[k][1]
           i == K[k][2]
           c == compute_cost(u, i)
       IN  /\ cost' = c
           /\ ncost' = ncost + 1
           /\ IF converged(n_iter, c, cost_last)
              THEN /\ feature' = feature + 1
                   /\ pc' = "for_feature"
                   /\ UNCHANGED n_iter
              ELSE /\ n_iter' = n_iter + 1
                   /\ pc' = "for_n"
                   /\ UNCHANGED feature
    /\ UNCHANGED << args, R, K, n, m, p, q, mu, b_u, b_i, sse, rmse,
                    cost_last, k, raised, trains, steplog, p0, q0 >>

\* line 140: self.rmse = np.sqrt(self.sse / n_ratings)
Finish ==
    /\ pc = "for_feature"
    /\ ~feature_in_xrange(feature, f)
    /\ rmse' = Sqrt(sse \div Len(K))
    /\ pc' = "done"
    /\ UNCHANGED << args, R, K, n, m, p, q, mu, b_u, b_i, sse,
                    trainLocals, raised, trains, steplog, ncost, p0, q0 >>

Next ==
    \/ Construct
    \/ TrainStart
    \/ ForFeature
    \/ ForEpoch
    \/ GradStep
    \/ EpochEnd
    \/ Finish

Spec == Init /\ [][Next]_vars

Training == pc \in {"for_feature", "for_n", "pairs", "epoch_end"}
Constructed == pc \in {"idle", "done", "for_feature", "for_n", "pairs", "epoch_end"}

\* train() is one synchronous call: once entered it runs to its end
TrainRun == ForFeature \/ ForEpoch \/ GradStep \/ EpochEnd \/ Finish
FairSpec == Spec /\ WF_vars(TrainRun)

----------------------------------------------------------------------------
(* Properties *)

Users == 0..(n - 1)
Items == 0..(m - 1)
LastPair == K[Len(K)]
LogIdx == 1..Len(steplog)

RECURSIVE SumSqErr(_)
SumSqErr(log) ==
    IF Len(log) = 0 THEN 0
    ELSE Mul(Head(log).err, Head(log).err) + SumSqErr(Tail(log))

RECURSIVE SumKnown(_)
SumKnown(pairs) ==
    IF Len(pairs) = 0 THEN 0
    ELSE R[Head(pairs)[1]][Head(pairs)[2]] + SumKnown(Tail(pairs))

\* C1: in every state of a constructed object, before, during and after
\* train, predict(u,i) lies in [1,5] for every user and item: it is the raw
\* sum mu + b_i[i] + b_u[u] + dot(q[:,i], p[:,u]) when that lies in [1,5],
\* 5 when the sum is above 5 and 1 when it is below 1.
C1_PredictClamped ==
    Constructed =>
        \A u \in Users, i \in Items :
            LET raw == mu + b_i[i] + b_u[u] + dot(q, p, i, u)
                r   == predict_rhat(u, i)
            IN  /\ r >= 1 * Scale /\ r <= 5 * Scale
                /\ (raw >= 1 * Scale /\ raw <= 5 * Scale) => r = raw
                /\ raw > 5 * Scale => r = 5 * Scale
                /\ raw < 1 * Scale => r = 1 * Scale

\* C1 witness: in the middle of training all three cases of the clamp occur
C1_Witness ==
    /\ pc = "pairs" /\ Len(steplog) > 0
    /\ \E u \in Users, i \in Items : raw_rhat(u, i) < 1 * Scale
    /\ \E u \in Users, i \in Items : raw_rhat(u, i) > 5 * Scale
    /\ \E u \in Users, i \in Items :
          raw_rhat(u, i) > 1 * Scale /\ raw_rhat(u, i) < 5 * Scale

\* C2: after loading, mu is the sum of the known ratings divided by the
\* number of known pairs |K|; for the file (1,1,5), (1,2,3), (2,1,4) the
\* store has 2 users, 2 items, 3 known pairs and mu = 4.0.
C2_MuIsMeanOfKnown ==
    pc = "idle" =>
        /\ mu = SumKnown(K) \div Len(K)
        /\ file_path = SpecFile =>
              n = 2 /\ m = 2 /\ Len(K) = 3 /\ mu = 4 * Scale

\* C3: when p and/or q are supplied to the constructor, the factor matrices
\* at the start of train are exactly the supplied ones; a random matrix with
\* entries in [-0.01, 0.01] is used only for a matrix that was not supplied.
C3_WarmStart ==
    (pc = "idle" /\ trains = 0) =>
        /\ p_arg # None => p = p_arg
        /\ q_arg # None => q = q_arg
        /\ p_arg = None =>
              \A g \in 0..(f-1), u \in Users : p[g][u] >= RandLo /\ p[g][u] <= RandHi
        /\ q_arg = None =>
              \A g \in 0..(f-1), i \in Items : q[g][i] >= RandLo /\ q[g][i] <= RandHi

\* C4: train always terminates: for every feature at most max_epochs epochs
\* run, every epoch performs exactly |K| gradient steps, the run performs at
\* most num_features * max_epochs * |K| gradient steps, and a run that has
\* started reaches the done state.
C4_TrainTerminates ==
    /\ [](Training =>
            /\ n_iter <= max_iter
            /\ \A j \in LogIdx : steplog[j].n < max_iter
            /\ Len(steplog) <= f * max_iter * Len(K)
            /\ pc = "epoch_end" =>
                  Cardinality({j \in LogIdx : /\ steplog[j].feature = feature
                                              /\ steplog[j].n = n_iter}) = Len(K))
    /\ (Training ~> pc = "done")

\* C4 witness: a finished run that used every epoch of every feature
C4_Witness ==
    /\ pc = "done" /\ f = 2 /\ max_iter >= 2
    /\ Len(steplog) = f * max_iter * Len(K)

\* C5: baseline estimation on a rating store with zero known entries ends in
\* DegenerateInputError: no unbounded recursion, no hang, no mu value.
C5_DegenerateInput ==
    (pc # "new" /\ Len(file_path) > 0 /\ Len(nonzero(load_data(file_path))) = 0) =>
        /\ pc = "raised"
        /\ raised = "DegenerateInputError"

\* C6: at the end of train, sse is the sum of err^2 over every gradient step
\* of that train call (all features, epochs and pairs; it is reset once, at
\* the start of train), err being the error computed just before the step's
\* update, and rmse is the square root of sse / |K| (to the precision of the
\* number representation).
C6_SseIsSumOfSquares ==
    pc = "done" =>
        /\ sse = SumSqErr(steplog)
        /\ rmse >= 0
        /\ rmse * rmse <= (sse \div Len(K)) * Scale
        /\ (rmse + 1) * (rmse + 1) > (sse \div Len(K)) * Scale

\* C6 witness: the end of a second train call in which both features took
\* gradient steps with a nonzero error
C6_Witness ==
    /\ pc = "done" /\ trains = 2 /\ sse > 0 /\ rmse > 0
    /\ \E j \in LogIdx : steplog[j].feature = 0 /\ steplog[j].err # 0
    /\ \E j \in LogIdx : steplog[j].feature = 1 /\ steplog[j].err # 0

\* C7: in one gradient step for feature f and pair (u,i) with error e the new
\* p[f,u] is old_p + gamma*(e*old_q - lambda*old_p), old_q being the value
\* of q[f,i] before the step, and the new q[f,i] is
\* old_q + gamma*(e*old_p - lambda*old_q).
C7_SnapshotUpdate ==
    [][pc = "pairs" =>
        LET u == K[k][1]
            i == K[k][2]
            e == get_error(u, i)
            old_q == q[feature][i]
            old_p == p[feature][u]
        IN  /\ q'[feature][i] = old_q + Mul(gamma, Mul(e, old_p) - Mul(lambda_, old_q))
            /\ p'[feature][u] = old_p + Mul(gamma, Mul(e, old_q) - Mul(lambda_, old_p))
      ]_vars

\* C8: for each feature the epoch loop stops after epoch n (n < max_epochs)
\* exactly when n >= min_epochs and cost > cost_last - min_improvement, cost
\* being the snapshot taken after epoch n and cost_last the cost held just
\* before epoch n started; otherwise the loop goes on to epoch n+1, and it
\* ends without a test once n reaches max_epochs.
C8_ConvergenceTest ==
    [][/\ (pc = "for_n" /\ n_iter < max_iter) =>
              pc' = "pairs" /\ cost_last' = cost /\ cost' = cost
       /\ (pc = "for_n" /\ n_iter >= max_iter) =>
              pc' = "for_feature" /\ feature' = feature + 1 /\ cost' = cost
       /\ pc = "pairs" => cost' = cost /\ cost_last' = cost_last /\ n_iter' = n_iter
       /\ pc = "epoch_end" =>
              LET stop == n_iter >= min_iter /\ cost' > cost_last - min_improvement
              IN  /\ n_iter < max_iter
                  /\ cost' = compute_cost(LastPair[1], LastPair[2])
                  /\ stop => pc' = "for_feature" /\ feature' = feature + 1
                  /\ ~stop => pc' = "for_n" /\ n_iter' = n_iter + 1
                              /\ feature' = feature
      ]_vars

\* C8 witness: the loop of a feature has just stopped on the test, after an
\* earlier epoch and before max_epochs
C8_Witness ==
    /\ pc = "for_feature" /\ feature >= 1 /\ ncost >= 2
    /\ n_iter >= 1 /\ n_iter >= min_iter /\ n_iter + 1 < max_iter
    /\ cost > cost_last - min_improvement

\* C9: with max_epochs = 0 train performs no gradient step: b_u, b_i, p and
\* q are after train what they were before it, no cost snapshot is taken and
\* sse is 0.
C9_ZeroEpochs ==
    (max_iter = 0 /\ pc = "done") =>
        LET base == get_baseline(load_data(file_path), n, m)
        IN  /\ steplog = << >>
            /\ ncost = 0
            /\ sse = 0
            /\ p = p0 /\ q = q0
            /\ b_u = base.b_u /\ b_i = base.b_i
            /\ cost = 2 * Scale

\* C9 witness: train has finished on an object with max_epochs = 0 and two
\* features
C9_Witness == max_iter = 0 /\ pc = "done" /\ f = 2 /\ trains >= 1

\* C10: a gradient step for feature f and pair (u,i) changes only b_u[u],
\* b_i[i], q[f,i] and p[f,u]; R, K, mu, every other bias and every other
\* entry of p and q are unchanged; features are trained in increasing order
\* and the rows of features already trained are not modified again during
\* the train call.
C10_StepFrame ==
    [][/\ pc = "pairs" =>
              LET u == K[k][1]
                  i == K[k][2]
              IN  /\ R' = R /\ K' = K /\ mu' = mu
                  /\ \A v \in Users \ {u} : b_u'[v] = b_u[v]
                  /\ \A j \in Items \ {i} : b_i'[j] = b_i[j]
                  /\ \A g \in 0..(f-1), v \in Users :
                        (g # feature \/ v # u) => p'[g][v] = p[g][v]
                  /\ \A g \in 0..(f-1), j \in Items :
                        (g # feature \/ j # i) => q'[g][j] = q[g][j]
       /\ Training =>
              /\ feature' >= feature
              /\ \A g \in 0..(f-1) : g < feature => p'[g] = p[g] /\ q'[g] = q[g]
       /\ Constructed => R' = R /\ K' = K /\ mu' = mu
      ]_vars

\* C10 witness: the second feature is being trained and its row has been
\* changed while the row of the first feature differs from its initial one
C10_Witness ==
    /\ pc = "pairs" /\ feature = 1 /\ k > 1
    /\ p[0] # p0[0] /\ p[1] # p0[1] /\ q[1] # q0[1]
====
